---- MODULE Spec2Model ----
(***************************************************************************)
(* Model of api/utils/tracing.py: the tracing bootstrap (setup_tracing),   *)
(* the free span functions (create_custom_span, add_span_attributes,       *)
(* record_exception) and the context manager TracingSpan.                  *)
(*                                                                         *)
(* An optional value (Python None or an object) is a sequence of length 0  *)
(* or 1: <<>> is None, <<x>> is the object x.  A dict is a function whose  *)
(* DOMAIN is its key set.                                                  *)
(***************************************************************************)
EXTENDS Integers, Sequences, FiniteSets, TLC

VARIABLES
    environ,          \* os.environ restricted to the key the code reads
    pc,               \* position of the running setup_tracing call
    ncalls,           \* number of setup_tracing invocations so far
    resource,         \* local `resource` of setup_tracing
    otlp_exporter,    \* local `otlp_exporter` of setup_tracing
    tracer_provider,  \* the process-wide provider (trace.set_tracer_provider)
    instrumented,     \* per library: number of completed instrument() calls
    steps,            \* global effects completed by the current invocation
    raisedAt,         \* position whose call raised out of setup_tracing
    spans,            \* the spans the tracer has started, by identity
    ts,               \* the TracingSpan instance
    frames,           \* active `with ts:` blocks, innermost last
    last,             \* the most recently finished call and how it ended
    nfree             \* number of free-function calls made so far

bootVars == <<environ, pc, ncalls, resource, otlp_exporter, tracer_provider,
              instrumented, steps, raisedAt>>
spanVars == <<spans, ts, frames, last, nfree>>
vars == <<environ, pc, ncalls, resource, otlp_exporter, tracer_provider,
          instrumented, steps, raisedAt, spans, ts, frames, last, nfree>>

None == <<>>
Some(x) == <<x>>

(***************************************************************************)
(* Bounds of the model.                                                    *)
(***************************************************************************)
MaxSetupCalls == 2   \* invocations of setup_tracing
MaxSpans == 2        \* spans started by the tracer
MaxDepth == 2        \* nesting depth of `with ts:` blocks
MaxFreeCalls == 2    \* direct calls of add_span_attributes/record_exception

(***************************************************************************)
(* Tracing bootstrap: setup_tracing, lines 14-42.                          *)
(***************************************************************************)
EnvValues == {"", "production", "staging"}

\* The states of the ENVIRONMENT variable: absent, or present with a value.
Environs == {[k \in {} |-> ""]} \cup [{"ENVIRONMENT"} -> EnvValues]

\* os.getenv(key, default): the default is used only when the key is absent.
getenv_or(key, default) ==
    IF key \in DOMAIN environ /\ environ[key] # "" THEN environ[key] ELSE default

getenv(key, default) ==
    IF key \in DOMAIN environ THEN environ[key] ELSE default

\* Resource.create({...}) of lines 18-22.
ResourceCreate ==
    [service_name |-> "tiktok-toe-api",
     service_version |-> "1.0.0",
     deployment_environment |-> getenv("ENVIRONMENT", "development")]

\* TracerProvider(resource=resource): a provider with no span processor yet.
TracerProvider(r) == [resource |-> r, processors |-> <<>>]

\* OTLPSpanExporter(endpoint=..., insecure=True) of lines 28-31.
OTLPSpanExporter == [endpoint |-> "http://otel-collector:4317", insecure |-> TRUE]

\* BatchSpanProcessor(otlp_exporter) of line 34.
BatchSpanProcessor(e) == [kind |-> "batch", exporter |-> e]

add_span_processor_dropped(p, sp) == p

\* provider.add_span_processor(span_processor) of line 35.
add_span_processor(p, sp) == [p EXCEPT !.processors = Append(@, sp)]

\* The five instrument() calls of lines 38-42, by position.
Libraries == <<"fastapi", "redis", "sqlalchemy", "elasticsearch", "requests">>
InstrLines == <<"L38", "L39", "L40", "L41", "L42">>
LibrarySet == {Libraries[i] : i \in DOMAIN Libraries}

\* The statements of setup_tracing in program order, and the effect each logs.
StepOrder == <<"L18", "L25", "L28", "L34">> \o InstrLines
PosOf(l) == CHOOSE i \in DOMAIN StepOrder : StepOrder[i] = l
NextLine(l) ==
    IF PosOf(l) = Len(StepOrder) THEN "returned" ELSE StepOrder[PosOf(l) + 1]
Running == pc \in {StepOrder[i] : i \in DOMAIN StepOrder}

\* A call of setup_tracing by the host process.
CallSetupTracing ==
    /\ pc \in {"idle", "returned", "raised"}
    /\ ncalls < MaxSetupCalls
    /\ ncalls' = ncalls + 1
    /\ pc' = "L18"
    /\ resource' = None
    /\ otlp_exporter' = None
    /\ steps' = <<>>
    /\ raisedAt' = ""
    /\ UNCHANGED <<environ, tracer_provider, instrumented>>
    /\ UNCHANGED spanVars

\* Lines 18-22.
BuildResource ==
    /\ pc = "L18"
    /\ resource' = Some(ResourceCreate)
    /\ steps' = Append(steps, "resource")
    /\ pc' = NextLine(pc)
    /\ UNCHANGED <<environ, ncalls, otlp_exporter, tracer_provider, instrumented,
                   raisedAt>>
    /\ UNCHANGED spanVars

\* Line 25.
SetTracerProvider ==
    /\ pc = "L25"
    /\ tracer_provider' = Some(TracerProvider(resource[1]))
    /\ steps' = Append(steps, "set_tracer_provider")
    /\ pc' = NextLine(pc)
    /\ UNCHANGED <<environ, ncalls, resource, otlp_exporter, instrumented, raisedAt>>
    /\ UNCHANGED spanVars

\* Lines 28-31.
CreateExporter ==
    /\ pc = "L28"
    /\ otlp_exporter' = Some(OTLPSpanExporter)
    /\ steps' = Append(steps, "exporter")
    /\ pc' = NextLine(pc)
    /\ UNCHANGED <<environ, ncalls, resource, tracer_provider, instrumented, raisedAt>>
    /\ UNCHANGED spanVars

\* Lines 34-35: the processor is attached to whatever provider is installed.
AddSpanProcessor ==
    /\ pc = "L34"
    /\ tracer_provider # None
    /\ tracer_provider' =
           Some(add_span_processor(tracer_provider[1],
                                   BatchSpanProcessor(otlp_exporter[1])))
    /\ steps' = Append(steps, "add_span_processor")
    /\ pc' = NextLine(pc)
    /\ UNCHANGED <<environ, ncalls, resource, otlp_exporter, instrumented, raisedAt>>
    /\ UNCHANGED spanVars

\* Lines 38-42: one instrument() call; the last one returns from setup_tracing.
Instrument ==
    /\ \E i \in DOMAIN InstrLines :
          /\ pc = InstrLines[i]
          /\ instrumented' = [instrumented EXCEPT ![Libraries[i]] = @ + 1]
          /\ steps' = Append(steps, Libraries[i])
    /\ pc' = NextLine(pc)
    /\ UNCHANGED <<environ, ncalls, resource, otlp_exporter, tracer_provider, raisedAt>>
    /\ UNCHANGED spanVars

RaiseRollingBack ==
    /\ Running
    /\ raisedAt' = pc
    /\ pc' = "raised"
    /\ tracer_provider' = None
    /\ instrumented' = [l \in LibrarySet |-> 0]
    /\ steps' = <<>>
    /\ UNCHANGED <<environ, ncalls, resource, otlp_exporter>>
    /\ UNCHANGED spanVars

\* The call at the current line raises.  setup_tracing has no try statement:
\* the exception leaves the function and nothing already done is undone.
Raise ==
    /\ Running
    /\ raisedAt' = pc
    /\ pc' = "raised"
    /\ UNCHANGED <<environ, ncalls, resource, otlp_exporter, tracer_provider,
                   instrumented, steps>>
    /\ UNCHANGED spanVars

BootInit ==
    /\ environ \in Environs
    /\ pc = "idle"
    /\ ncalls = 0
    /\ resource = None
    /\ otlp_exporter = None
    /\ tracer_provider = None
    /\ instrumented = [l \in LibrarySet |-> 0]
    /\ steps = <<>>
    /\ raisedAt = ""

SpanInit ==
    /\ spans = <<>>
    /\ ts = None
    /\ frames = <<>>
    /\ last = None
    /\ nfree = 0

Init == BootInit /\ SpanInit

NextBoot ==
    \/ CallSetupTracing
    \/ BuildResource
    \/ SetTracerProvider
    \/ CreateExporter
    \/ AddSpanProcessor
    \/ Instrument
    \/ Raise

SpecBoot == Init /\ [][NextBoot]_vars

(***************************************************************************)
(* Manual span helpers, lines 44-60, and TracingSpan, lines 63-76.         *)
(*                                                                         *)
(* A span is the object tracer.start_span returns: its name, its attribute *)
(* dict and the record_exception and end calls made on it, in call order.  *)
(***************************************************************************)
Names == {"checkout"}
Keys == {"user_id", "order_id"}
EmptyMap == [k \in {} |-> ""]

\* The dicts a caller passes to add_span_attributes.
AddArgs ==
    {EmptyMap, [k \in {"user_id"} |-> "42"],
     [k \in Keys |-> IF k = "user_id" THEN "7" ELSE "42"]}

\* The attribute arguments passed to TracingSpan(...): None (omitted), the
\* empty dict or a dict.
AttrArgs == {None} \cup {Some(A) : A \in {EmptyMap, [k \in {"user_id"} |-> "42"]}}

\* The attribute arguments a body passes to record_exception.
RecordArgs == {None, Some([k \in {"user_id"} |-> "42"])}

\* Exceptions a scope body raises.  EmptyError stands for an exception class
\* whose instances are falsy (it defines __bool__ or __len__).
Exceptions == {"ValueError", "EmptyError"}
bool(e) == e # "EmptyError"

\* What span.record_exception raises when it fails (for instance on an
\* exception whose __str__ raises).
RecordError == "RecordError"

\* What a method call on None raises.
AttributeError == "AttributeError"

EndCall == [op |-> "end", exception |-> None, attributes |-> EmptyMap]
RecordCall(e, A) == [op |-> "record_exception", exception |-> Some(e), attributes |-> A]

\* span.set_attribute(key, value), line 54.
span_set_attribute(sp, key, value) ==
    [sp EXCEPT !.attributes =
        [k \in DOMAIN @ \cup {key} |-> IF k = key THEN value ELSE @[k]]]

\* span.record_exception(exception, attributes=attributes), line 60.
span_record_exception(sp, e, A) == [sp EXCEPT !.calls = Append(@, RecordCall(e, A))]

\* span.end(), line 76.
span_end(sp) == [sp EXCEPT !.calls = Append(@, EndCall)]

\* tracer.start_span(name, attributes=attributes), line 49.
start_span(name, A) == [name |-> name, attributes |-> A, calls |-> <<>>]

\* create_custom_span, lines 44-49: the spans with the new one, whose
\* identity is its position.
create_custom_span(S, name, attributes) ==
    Append(S, start_span(name, IF attributes = None THEN EmptyMap ELSE attributes[1]))

RECURSIVE SetEach(_, _, _)
SetEach(sp, A, todo) ==
    IF todo = {} THEN sp
    ELSE LET key == CHOOSE k \in todo : TRUE
         IN SetEach(span_set_attribute(sp, key, A[key]), A, todo \ {key})

add_span_attributes_keep(sp, A) ==
    [sp EXCEPT !.attributes =
        [k \in DOMAIN @ \cup DOMAIN A |-> IF k \in DOMAIN @ THEN @[k] ELSE A[k]]]

\* add_span_attributes, lines 51-54: set_attribute for every item of the dict.
add_span_attributes(sp, A) == SetEach(sp, A, DOMAIN A)

record_exception_ending(S, s, e, attributes, fails) ==
    [spans |-> [S EXCEPT ![s] = span_end(span_record_exception(@, e, EmptyMap))],
     raised |-> None]

\* record_exception, lines 56-60, on span s of S.  `fails` is whether the
\* span's record_exception raises; the function has no try statement.
record_exception(S, s, e, attributes, fails) ==
    LET A == IF attributes = None THEN EmptyMap ELSE attributes[1]
    IN IF fails
       THEN [spans |-> S, raised |-> Some(RecordError)]
       ELSE [spans |-> [S EXCEPT ![s] = span_record_exception(@, e, A)],
             raised |-> None]

\* TracingSpan.__init__, lines 64-67.  `attributes or {}`: None and the empty
\* dict both give the empty dict.
TracingSpan__init__(name, attributes) ==
    [name |-> name,
     attributes |-> IF attributes = None \/ attributes[1] = EmptyMap
                    THEN EmptyMap ELSE attributes[1],
     span |-> None]

TracingSpan__enter__unstored(S, self) ==
    [spans |-> create_custom_span(S, self.name, Some(self.attributes)),
     self |-> self,
     result |-> Len(S) + 1]

\* TracingSpan.__enter__, lines 69-71: the new span replaces self.span
\* whatever it held.
TracingSpan__enter__(S, self) ==
    [spans |-> create_custom_span(S, self.name, Some(self.attributes)),
     self |-> [self EXCEPT !.span = Some(Len(S) + 1)],
     result |-> Len(S) + 1]

TracingSpan__exit__finally(S, self, exc_val, fails) ==
    IF self.span = None THEN [spans |-> S, raised |-> Some(AttributeError)] ELSE
    LET r == IF exc_val # None /\ bool(exc_val[1])
             THEN record_exception(S, self.span[1], exc_val[1], None, fails)
             ELSE [spans |-> S, raised |-> None]
    IN [spans |-> [r.spans EXCEPT ![self.span[1]] = span_end(@)],
        raised |-> r.raised]

TracingSpan__exit__end_in_if(S, self, exc_val, fails) ==
    IF self.span = None THEN [spans |-> S, raised |-> Some(AttributeError)] ELSE
    IF exc_val # None /\ bool(exc_val[1])
    THEN LET r == record_exception(S, self.span[1], exc_val[1], None, fails)
         IN IF r.raised # None THEN r
            ELSE [spans |-> [r.spans EXCEPT ![self.span[1]] = span_end(@)],
                  raised |-> None]
    ELSE [spans |-> S, raised |-> None]

\* TracingSpan.__exit__, lines 73-76.  `if exc_val:` tests the truth value of
\* the exception; an exception raised by record_exception leaves __exit__
\* before line 76.  With self.span still None either call is an attribute
\* access on None.  The method returns None.
TracingSpan__exit__(S, self, exc_val, fails) ==
    IF self.span = None THEN [spans |-> S, raised |-> Some(AttributeError)] ELSE
    LET r == IF exc_val # None /\ bool(exc_val[1])
             THEN record_exception(S, self.span[1], exc_val[1], None, fails)
             ELSE [spans |-> S, raised |-> None]
    IN IF r.raised # None THEN r
       ELSE [spans |-> [r.spans EXCEPT ![self.span[1]] = span_end(@)],
             raised |-> None]

\* What leaves a `with` statement whose body ended with exc_val and whose
\* __exit__ ended with r: __exit__'s own exception, else (its return value
\* None being false) the body's exception.
WithOutcome(exc_val, r) == IF r.raised # None THEN r.raised ELSE exc_val

Finished(op, span, held, exc, attributes, raised) ==
    Some([op |-> op, span |-> span, held |-> held, exc |-> exc,
          attributes |-> attributes, raised |-> raised, before |-> spans])

\* ts = TracingSpan(name, attributes)
Construct ==
    /\ ts = None
    /\ \E name \in Names, attributes \in AttrArgs :
          /\ ts' = Some(TracingSpan__init__(name, attributes))
          /\ last' = Finished("__init__", 0, None, None, attributes, None)
    /\ UNCHANGED <<spans, frames, nfree>>
    /\ UNCHANGED bootVars

\* `with ts as span:` reaches its body: __enter__ has returned the span.
Enter ==
    /\ ts # None
    /\ Len(frames) < MaxDepth
    /\ Len(spans) < MaxSpans
    /\ LET r == TracingSpan__enter__(spans, ts[1])
       IN /\ spans' = r.spans
          /\ ts' = Some(r.self)
          /\ frames' = Append(frames, r.result)
          /\ last' = Finished("__enter__", r.result, ts[1].span, None, None, None)
    /\ UNCHANGED nfree
    /\ UNCHANGED bootVars

\* The body of the innermost `with` block ends, normally (exc_val = None) or
\* with an exception, and __exit__ runs.
Exit ==
    /\ frames # <<>>
    /\ \E exc_val \in {None} \cup {Some(e) : e \in Exceptions}, fails \in BOOLEAN :
          LET r == TracingSpan__exit__(spans, ts[1], exc_val, fails)
          IN /\ spans' = r.spans
             /\ last' = Finished("with", frames[Len(frames)], ts[1].span, exc_val,
                                 None, WithOutcome(exc_val, r))
    /\ frames' = SubSeq(frames, 1, Len(frames) - 1)
    /\ UNCHANGED <<ts, nfree>>
    /\ UNCHANGED bootVars

\* The spans the running `with` bodies were handed by __enter__.
Handed == {frames[i] : i \in DOMAIN frames}

\* A body calls add_span_attributes(span, attributes) on a span it holds.
AddSpanAttributes ==
    /\ nfree < MaxFreeCalls
    /\ \E s \in Handed, A \in AddArgs :
          /\ spans' = [spans EXCEPT ![s] = add_span_attributes(@, A)]
          /\ last' = Finished("add_span_attributes", s, None, None, Some(A), None)
    /\ nfree' = nfree + 1
    /\ UNCHANGED <<ts, frames>>
    /\ UNCHANGED bootVars

\* A body calls record_exception(span, exception[, attributes]) on a span it
\* holds.
RecordException ==
    /\ nfree < MaxFreeCalls
    /\ \E s \in Handed, e \in Exceptions, attributes \in RecordArgs,
          fails \in BOOLEAN :
          LET r == record_exception(spans, s, e, attributes, fails)
          IN /\ spans' = r.spans
             /\ last' = Finished("record_exception", s, None, Some(e), attributes,
                                 r.raised)
    /\ nfree' = nfree + 1
    /\ UNCHANGED <<ts, frames>>
    /\ UNCHANGED bootVars

NextSpan ==
    \/ Construct
    \/ Enter
    \/ Exit
    \/ AddSpanAttributes
    \/ RecordException

\* The span helpers never read the environment: it is left unset.
InitSpan == Init /\ environ = EmptyMap

SpecSpan == InitSpan /\ [][NextSpan]_vars

(***************************************************************************)
(* Properties of the bootstrap.                                            *)
(***************************************************************************)
\* The effect each statement of StepOrder logs, in program order.
StepEffects ==
    <<"resource", "set_tracer_provider", "exporter", "add_span_processor">>
        \o Libraries

Done(e) == \E i \in DOMAIN steps : steps[i] = e
Before(e, f) ==
    \A j \in DOMAIN steps : steps[j] = f => \E i \in 1..(j - 1) : steps[i] = e

EnvSet == "ENVIRONMENT" \in DOMAIN environ

\* C4 (as amended): once the resource is built, deployment.environment is the
\* value of ENVIRONMENT whenever the variable is set, the empty string
\* included, and "development" only when the variable is unset; the provider
\* installed by the same invocation carries that resource.
C4_DeploymentEnvironment ==
    /\ (resource # None /\ ~EnvSet)
          => resource[1].deployment_environment = "development"
    /\ (resource # None /\ EnvSet)
          => resource[1].deployment_environment = environ["ENVIRONMENT"]
    /\ Done("set_tracer_provider")
          => /\ tracer_provider # None
             /\ tracer_provider[1].resource.service_name = "tiktok-toe-api"
             /\ tracer_provider[1].resource.service_version = "1.0.0"
             /\ tracer_provider[1].resource.deployment_environment =
                    IF EnvSet THEN environ["ENVIRONMENT"] ELSE "development"

\* C4 as written: an empty ENVIRONMENT also yields "development".
C4_Original ==
    resource # None =>
        resource[1].deployment_environment =
            IF EnvSet /\ environ["ENVIRONMENT"] # ""
            THEN environ["ENVIRONMENT"] ELSE "development"

\* ENVIRONMENT is set to the empty string and the resource has been built.
C4_Witness ==
    /\ EnvSet
    /\ environ["ENVIRONMENT"] = ""
    /\ Done("set_tracer_provider")
    /\ tracer_provider[1].resource.deployment_environment = ""

\* C7: in every invocation the provider bound to the resource is installed
\* before the batching processor is attached, the processor is attached to
\* that installed provider before any instrumentation is activated, and when
\* setup_tracing returns the provider is non-null, carries the batching
\* processor and all five instrumentations are active.
C7_BootstrapOrder ==
    /\ Before("resource", "set_tracer_provider")
    /\ Before("set_tracer_provider", "add_span_processor")
    /\ \A l \in LibrarySet : Before("add_span_processor", l)
    /\ Done("set_tracer_provider")
          => /\ tracer_provider # None
             /\ tracer_provider[1].resource = resource[1]
    /\ Done("add_span_processor")
          => tracer_provider[1].processors =
                 <<[kind |-> "batch",
                    exporter |-> [endpoint |-> "http://otel-collector:4317",
                                  insecure |-> TRUE]]>>
    /\ pc = "returned"
          => /\ tracer_provider # None
             /\ Len(tracer_provider[1].processors) = 1
             /\ \A l \in LibrarySet : Done(l) /\ instrumented[l] >= 1
             /\ Len(steps) = Len(StepEffects)

\* setup_tracing has returned normally.
C7_Witness ==
    /\ pc = "returned"
    /\ steps = StepEffects
    /\ \A l \in LibrarySet : instrumented[l] = 1

C8_RaisedState ==
    pc = "raised" =>
        /\ raisedAt \in {StepOrder[i] : i \in DOMAIN StepOrder}
        /\ steps = SubSeq(StepEffects, 1, PosOf(raisedAt) - 1)
        /\ PosOf(raisedAt) > 2 => tracer_provider # None
        /\ PosOf(raisedAt) > 4 => Len(tracer_provider[1].processors) = 1
        /\ \A i \in DOMAIN Libraries :
              PosOf(raisedAt) > 4 + i => instrumented[Libraries[i]] >= 1

C8_RaiseStep ==
    /\ (pc # "raised" /\ pc' = "raised")
          => /\ raisedAt' = pc
             /\ tracer_provider' = tracer_provider
             /\ instrumented' = instrumented
             /\ steps' = steps
    /\ pc = "raised"
          => \/ UNCHANGED bootVars
             \/ pc' = "L18" /\ ncalls' = ncalls + 1
                /\ tracer_provider' = tracer_provider
                /\ instrumented' = instrumented

\* C8: when a statement of setup_tracing raises, the exception leaves the
\* function at that statement, no later statement of the invocation runs, and
\* the provider, processor and instrumentations already in place stay.
C8_FailurePropagates == []C8_RaisedState /\ [][C8_RaiseStep]_vars

\* The third instrumentation raised; provider, processor and the first two
\* instrumentations are in place.
C8_Witness ==
    /\ pc = "raised"
    /\ raisedAt = "L40"
    /\ tracer_provider # None
    /\ Len(tracer_provider[1].processors) = 1
    /\ instrumented["fastapi"] = 1
    /\ instrumented["redis"] = 1
    /\ instrumented["sqlalchemy"] = 0

(***************************************************************************)
(* Properties of the span helpers.                                         *)
(***************************************************************************)
EndCalls(sp) == Cardinality({i \in DOMAIN sp.calls : sp.calls[i].op = "end"})
Faults(sp) == {i \in DOMAIN sp.calls : sp.calls[i].op = "record_exception"}
Was(op) == last # None /\ last[1].op = op

\* C1: every span the helper created whose `with` block has been left has
\* had end() called on it exactly once, whether the body returned or raised.
C1_EndedExactlyOnce ==
    \A s \in DOMAIN spans : s \notin Handed => EndCalls(spans[s]) = 1

\* C2: when the body of a `with` block raised E, E was recorded on the
\* block's span before the span was ended, and E is what leaves the block.
C2_FaultRecordedThenPropagates ==
    (Was("with") /\ last[1].exc # None) =>
        LET sp == spans[last[1].span]
            E == last[1].exc[1]
        IN /\ \E i, j \in DOMAIN sp.calls :
                 /\ i < j
                 /\ sp.calls[i] = RecordCall(E, EmptyMap)
                 /\ sp.calls[j] = EndCall
           /\ last[1].raised = Some(E)

\* C3: when the body of a `with` block completed normally, __exit__ made no
\* record_exception call on any span and exactly one end() call, on the span
\* the helper holds; nothing leaves the block; and the span of a block whose
\* helper was not re-entered meanwhile is then ended, exactly once, carrying
\* no fault but those the body itself recorded.
C3_NormalExitEndsWithoutFault ==
    (Was("with") /\ last[1].exc = None) =>
        LET held == last[1].held[1]
            own == last[1].span
        IN /\ last[1].raised = None
           /\ spans = [last[1].before EXCEPT ![held].calls = Append(@, EndCall)]
           /\ \A s \in DOMAIN spans :
                 Cardinality(Faults(spans[s])) =
                     Cardinality(Faults(last[1].before[s]))
           /\ held = own => /\ Faults(spans[own]) = Faults(last[1].before[own])
                            /\ EndCalls(spans[own]) = 1

\* A block whose body completed normally has been left and its span ended.
C3_Witness ==
    /\ Was("with")
    /\ last[1].exc = None
    /\ last[1].held = Some(last[1].span)
    /\ spans[last[1].span].calls = <<EndCall>>

\* C5: after add_span_attributes(span, A) every key of A is on the span with
\* A's value, whatever an earlier call set for it; every other attribute and
\* every other span is as before; with A empty nothing changes.
C5_AttributesAttached ==
    Was("add_span_attributes") =>
        LET s == last[1].span
            A == last[1].attributes[1]
            old == last[1].before[s]
        IN /\ \A k \in DOMAIN A :
                 k \in DOMAIN spans[s].attributes /\ spans[s].attributes[k] = A[k]
           /\ \A k \in Keys \ DOMAIN A :
                 /\ k \in DOMAIN spans[s].attributes <=> k \in DOMAIN old.attributes
                 /\ k \in DOMAIN old.attributes
                       => spans[s].attributes[k] = old.attributes[k]
           /\ DOMAIN spans[s].attributes = DOMAIN old.attributes \cup DOMAIN A
           /\ spans[s].calls = old.calls /\ spans[s].name = old.name
           /\ \A t \in DOMAIN spans : t # s => spans[t] = last[1].before[t]
           /\ A = EmptyMap => spans = last[1].before

\* A second call has overwritten a key an earlier write had set differently.
C5_Witness ==
    /\ Was("add_span_attributes")
    /\ nfree = 2
    /\ \E k \in DOMAIN last[1].attributes[1] :
          /\ k \in DOMAIN last[1].before[last[1].span].attributes
          /\ last[1].before[last[1].span].attributes[k] # last[1].attributes[1][k]
          /\ spans[last[1].span].attributes[k] = last[1].attributes[1][k]

\* C6: record_exception(span, e, attributes) never calls end (an open span
\* stays open) and never raises e; when the span accepts the call the only
\* change is one fault event for e appended to that span, carrying the given
\* mapping, the empty mapping when none was given.
C6_RecordOnlyAddsEvent ==
    Was("record_exception") =>
        LET s == last[1].span
            e == last[1].exc[1]
            old == last[1].before[s]
            A == IF last[1].attributes = None THEN EmptyMap
                 ELSE last[1].attributes[1]
        IN /\ EndCalls(spans[s]) = EndCalls(old)
           /\ EndCalls(old) = 0 => EndCalls(spans[s]) = 0
           /\ last[1].raised # Some(e)
           /\ \A t \in DOMAIN spans : t # s => spans[t] = last[1].before[t]
           /\ spans[s].attributes = old.attributes
           /\ last[1].raised = None
                 => spans[s].calls = Append(old.calls, RecordCall(e, A))
           /\ last[1].raised # None => spans = last[1].before

\* record_exception was called without attributes on an open span and
\* returned: the event carries the empty mapping and the span is still open.
C6_Witness ==
    /\ Was("record_exception")
    /\ last[1].attributes = None
    /\ last[1].raised = None
    /\ spans[last[1].span].calls = <<RecordCall(last[1].exc[1], EmptyMap)>>

\* C10: when record_exception raises inside __exit__, the exit calls end on
\* no span, the span created on entry has never been ended, and what leaves
\* the block is the secondary exception, not the body's.
C10_RecordFailureMasks ==
    (Was("with") /\ last[1].raised = Some(RecordError)) =>
        /\ last[1].exc # None
        /\ last[1].raised # last[1].exc
        /\ spans = last[1].before
        /\ EndCalls(spans[last[1].span]) = 0
        /\ EndCalls(spans[last[1].held[1]]) = EndCalls(last[1].before[last[1].held[1]])

\* The body raised ValueError, recording it raised, and the span is open.
C10_Witness ==
    /\ Was("with")
    /\ last[1].exc = Some("ValueError")
    /\ last[1].raised = Some(RecordError)
    /\ last[1].held = Some(last[1].span)
    /\ spans[last[1].span].calls = <<>>

\* The state of the helper, read off the span it holds.
HelperState ==
    IF ts = None \/ ts[1].span = None THEN "UNSTARTED"
    ELSE IF EndCalls(spans[ts[1].span[1]]) > 0 THEN "ENDED" ELSE "ACTIVE"

C9_Construction ==
    /\ ts = None => spans = <<>>
    /\ Was("__init__") => ts # None /\ ts[1].span = None /\ spans = <<>>
    /\ (ts # None /\ ts[1].span # None) => ts[1].span[1] \in DOMAIN spans

C9_Step ==
    /\ Len(spans') # Len(spans)
          => /\ last'[1].op = "__enter__"
             /\ Len(spans') = Len(spans) + 1
             /\ ts'[1].span = Some(Len(spans'))
             /\ spans'[Len(spans')] =
                    [name |-> ts[1].name, attributes |-> ts[1].attributes,
                     calls |-> <<>>]
             /\ HelperState' = "ACTIVE"
    /\ (ts # None /\ ts'[1].span # ts[1].span) => last'[1].op = "__enter__"
    /\ \A s \in DOMAIN spans :
          EndCalls(spans'[s]) # EndCalls(spans[s])
              => /\ last'[1].op = "with"
                 /\ ts[1].span = Some(s)
                 /\ EndCalls(spans'[s]) = EndCalls(spans[s]) + 1
    /\ <<HelperState, HelperState'>> \in
           {<<"UNSTARTED", "UNSTARTED">>, <<"UNSTARTED", "ACTIVE">>,
            <<"ACTIVE", "ACTIVE">>, <<"ACTIVE", "ENDED">>,
            <<"ENDED", "ENDED">>, <<"ENDED", "ACTIVE">>}
    /\ (HelperState # "ENDED" /\ HelperState' = "ENDED") => last'[1].op = "with"
    /\ (HelperState # "ACTIVE" /\ HelperState' = "ACTIVE")
          => last'[1].op = "__enter__"

\* C9 (as amended): construction creates no span; scope entry is the only
\* operation that creates a span and it makes the helper hold that new, open
\* span, whatever it held before; scope exit is the only operation that ends
\* a span, the held one; the helper moves UNSTARTED -> ACTIVE -> ENDED and,
\* by a further entry, from ACTIVE or ENDED to ACTIVE with a new span.
C9_HelperLifecycle == []C9_Construction /\ [][C9_Step]_vars

\* C9 as written: no transition out of ENDED, and no entry while ACTIVE that
\* replaces the held span.
C9_Original ==
    [][/\ HelperState = "ENDED" => HelperState' = "ENDED"
       /\ HelperState = "ACTIVE" => ts'[1].span = ts[1].span]_vars

\* The helper was entered again after its first span was ended and now holds
\* a second, open span.
C9_Witness ==
    /\ Len(spans) = 2
    /\ EndCalls(spans[1]) = 1
    /\ ts[1].span = Some(2)
    /\ HelperState = "ACTIVE"

====
